---- MODULE Spec2Model ----
(***************************************************************************)
(* Session / authentication core of the cown backend.                       *)
(*                                                                         *)
(* Modelled code:                                                          *)
(*   src/src/services/authService.js   (AuthService, lines 303-778)        *)
(*   src/unnamed/part_003              (authMiddleware: requireAuth, ...)  *)
(*   src/src/controllers/authController.js                                 *)
(*   src/src/routes/authRoutes.js      (middleware chains of the routes)   *)
(*   src/server.js                     (express-session configuration)     *)
(*                                                                         *)
(* Every HTTP request is one action: the whole middleware chain of the     *)
(* route plus the controller, including every store call it awaits.  The   *)
(* MySQL and the Redis cache are either reachable or not for the duration  *)
(* of one request: each request is handled with a set "down" of            *)
(* unreachable stores chosen by the environment.  MongoDB, which holds     *)
(* only the preferences document, is taken to be reachable.  Time advances *)
(* in steps of 12 hours; a Redis key and an HTTP session carry the time    *)
(* they have left (24 hours when they are set or touched).                 *)
(* The express-rate-limit and express-validator stages of the routes are   *)
(* taken to pass: every client stays inside the rate limit and sends       *)
(* well-formed, already normalised input.                                  *)
(*                                                                         *)
(* The field cipher (cryptoMethods.aesIGE, encryptUserData,                *)
(* decryptUserData) is followed byte by byte under a specification of its  *)
(* own, SpecCipher, on values and rows drawn from small sets.              *)
(***************************************************************************)
EXTENDS Integers, FiniteSets, Sequences, TLC

\* ---------------------------------------------------------------- bounds
MaxTokens == 2      \* crypto.randomUUID() is called at most this often
MaxLen == 2         \* longest plaintext given to the field cipher (code units)

\* ---------------------------------------------------------------- inputs
Clients == {"c1", "c2"}
Emails == {"a@x.com", "b@x.com"}
Passwords == {"Str0ng!Pass"}               \* passwords accounts register with
LoginPasswords == Passwords \cup {"wrong"}  \* passwords tried at login
Stores == {"mysql", "redis"}
DummyIds == {2}     \* Math.floor(Math.random() * 10000)
Seeds == {1, 2}     \* the outcomes of crypto.randomBytes that are told apart
\* UTF-16 code units of the strings given to the field cipher:
\* 'A', 'e' with acute accent, a high surrogate, a low surrogate
CodeUnits == {65, 233, 55357, 56832}

\* ------------------------------------------------------- program constants
NullId == -1        \* req.session.userId undefined
NullTok == 0        \* session id null / undefined (tokens are 1..MaxTokens)
SessionTTL == 2     \* redis.setEx(sessionKey, 86400, ...): 24 hours = 2 steps
CookieMaxAge == 2   \* cookie.maxAge: 24 * 60 * 60 * 1000 ms = 2 steps
FirstInsertId == 1  \* AUTO_INCREMENT of a freshly created table
BlockSize == 16     \* aes-256-cbc: block and iv of 16 bytes
KeySize == 32       \* aes-256-cbc: key of 32 bytes
Colon == 58         \* ':' between the iv and the ciphertext
Replacement == 65533 \* U+FFFD, what the utf8 codec puts for what it cannot code

VARIABLES
    users,      \* MySQL table users: set of rows
    redis,      \* authService.redis: function key (user id) -> cached session
    sess,       \* express-session data per client (cookie): userId, sessionId
    nextToken,  \* number of session tokens generated so far
    last,       \* the request handled last and its response
    reg,        \* bookkeeping: what register last reported per email
    mongo,      \* MongoDB collection user_profiles: the documents, in order
    owner,      \* bookkeeping: whom each client's session was issued to
    cx,         \* the field cipher at work on one value or one users row
    race        \* registrations in flight, statement by statement, and the
                \* tables of the MySQL schema they work on

vars == <<users, redis, mongo, sess, nextToken, last, reg, owner, cx, race>>

\* -------------------------------------------------------------- JS values
\* !userId : undefined and the number 0 are both falsy
FalsyId(userId) == userId = NullId \/ userId = 0

\* !sessionId : null / undefined; a UUID string is never falsy
FalsyTok(sessionId) == sessionId = NullTok

\* ------------------------------------------------------------------ bcrypt
\* bcrypt.hash(password, 12): a one-way verifier, not the password itself
BcryptHash(password) == [alg |-> "bcrypt", cost |-> 12, of |-> password]

\* bcrypt.compare(password, hash)
BcryptCompare(password, hash) == hash.of = password

\* ------------------------------------------------------- strings and bytes
\* A JS string is the sequence of its UTF-16 code units, a Buffer the
\* sequence of its bytes.  NullStr is null (a NULL column).
NullStr == <<-1>>

\* !value : null and '' are falsy
Falsy(value) == value = NullStr \/ value = << >>

IsHigh(u) == u \in 55296..56319

IsLow(u) == u \in 56320..57343

\* the bytes of one code point
Utf8Bytes(cp) ==
    IF cp < 128 THEN <<cp>>
    ELSE IF cp < 2048 THEN <<192 + (cp \div 64), 128 + (cp % 64)>>
    ELSE IF cp < 65536
    THEN <<224 + (cp \div 4096), 128 + ((cp \div 64) % 64), 128 + (cp % 64)>>
    ELSE <<240 + (cp \div 262144), 128 + ((cp \div 4096) % 64),
           128 + ((cp \div 64) % 64), 128 + (cp % 64)>>

\* Buffer.from(string, 'utf8'), the input encoding of cipher.update: a
\* surrogate pair is one code point, a surrogate without its partner is
\* written as U+FFFD
RECURSIVE Utf8Encode(_)
Utf8Encode(str) ==
    IF str = << >> THEN << >>
    ELSE IF IsHigh(str[1]) /\ Len(str) > 1 /\ IsLow(str[2])
    THEN Utf8Bytes(65536 + (str[1] - 55296) * 1024 + (str[2] - 56320))
            \o Utf8Encode(SubSeq(str, 3, Len(str)))
    ELSE IF IsHigh(str[1]) \/ IsLow(str[1])
    THEN Utf8Bytes(Replacement) \o Utf8Encode(Tail(str))
    ELSE Utf8Bytes(str[1]) \o Utf8Encode(Tail(str))

\* buffer.toString('utf8'), the output encoding of decipher.update/final:
\* a byte that starts no well-formed sequence is read as U+FFFD
RECURSIVE Utf8Decode(_)
Utf8Decode(b) ==
    IF b = << >> THEN << >>
    ELSE LET Cont(i) == i <= Len(b) /\ b[i] \in 128..191
             cp2 == (b[1] - 192) * 64 + (b[2] - 128)
             cp3 == (b[1] - 224) * 4096 + (b[2] - 128) * 64 + (b[3] - 128)
             cp4 == (b[1] - 240) * 262144 + (b[2] - 128) * 4096
                        + (b[3] - 128) * 64 + (b[4] - 128)
         IN  IF b[1] < 128 THEN <<b[1]>> \o Utf8Decode(Tail(b))
             ELSE IF b[1] \in 194..223 /\ Cont(2)
             THEN <<cp2>> \o Utf8Decode(SubSeq(b, 3, Len(b)))
             ELSE IF /\ b[1] \in 224..239 /\ Cont(2) /\ Cont(3)
                     /\ cp3 >= 2048 /\ ~IsHigh(cp3) /\ ~IsLow(cp3)
             THEN <<cp3>> \o Utf8Decode(SubSeq(b, 4, Len(b)))
             ELSE IF /\ b[1] \in 240..244 /\ Cont(2) /\ Cont(3) /\ Cont(4)
                     /\ cp4 \in 65536..1114111
             THEN <<55296 + ((cp4 - 65536) \div 1024),
                    56320 + ((cp4 - 65536) % 1024)>>
                      \o Utf8Decode(SubSeq(b, 5, Len(b)))
             ELSE <<Replacement>> \o Utf8Decode(Tail(b))

\* one hex digit, lower case
HexDigit(n) == IF n < 10 THEN 48 + n ELSE 87 + n

\* the value of a hex digit, -1 for any other character
HexVal(ch) ==
    IF ch \in 48..57 THEN ch - 48
    ELSE IF ch \in 97..102 THEN ch - 87
    ELSE IF ch \in 65..70 THEN ch - 55
    ELSE -1

\* buffer.toString('hex')
ToHex(b) ==
    [i \in 1..(2 * Len(b)) |->
        HexDigit(IF (i % 2) = 1 THEN b[(i + 1) \div 2] \div 16
                 ELSE b[i \div 2] % 16)]

\* Buffer.from(string, 'hex'): stops at the first pair that is not hex
RECURSIVE FromHex(_)
FromHex(str) ==
    IF Len(str) < 2 \/ HexVal(str[1]) < 0 \/ HexVal(str[2]) < 0 THEN << >>
    ELSE <<16 * HexVal(str[1]) + HexVal(str[2])>> \o FromHex(SubSeq(str, 3, Len(str)))

\* crypto.randomBytes(size): the seed stands for the outcome of the draw
RandomBytes(size, seed) == [i \in 1..size |-> (seed * 37 + i * 11) % 256]

\* cryptoMethods.generateKey
GenerateKey(seed) == RandomBytes(KeySize, seed)

\* ------------------------------------------------------------- aes-256-cbc
RECURSIVE Xor(_, _)
Xor(a, b) ==
    IF a = 0 THEN b
    ELSE IF b = 0 THEN a
    ELSE ((a + b) % 2) + 2 * Xor(a \div 2, b \div 2)

XorBlock(x, y) == [i \in 1..BlockSize |-> Xor(x[i], y[i])]

\* The AES permutation of one block under a key is stood in for by a keyed
\* permutation of the block's bytes; everything around it (CBC chaining,
\* PKCS#7 padding, the encodings) is as createCipheriv does it.
BlockEncrypt(key, x) ==
    [i \in 1..BlockSize |-> (x[i] + key[i] + key[i + BlockSize]) % 256]

BlockDecrypt(key, y) ==
    [i \in 1..BlockSize |-> (y[i] + 512 - key[i] - key[i + BlockSize]) % 256]

\* cipher.final: PKCS#7, a whole block of padding when the input fills its
\* last block
Pkcs7Pad(b) ==
    LET n == BlockSize - (Len(b) % BlockSize)
    IN  b \o [i \in 1..n |-> n]

\* decipher.final: the last byte n says how many bytes of value n to strip
Pkcs7Ok(b) ==
    /\ Len(b) > 0
    /\ b[Len(b)] \in 1..BlockSize
    /\ \A i \in (Len(b) - b[Len(b)] + 1)..Len(b) : b[i] = b[Len(b)]

\* variant of Pkcs7Unpad that strips the last byte only
Pkcs7Unpad_LastByteOnly(b) == SubSeq(b, 1, Len(b) - 1)

Pkcs7Unpad(b) == SubSeq(b, 1, Len(b) - b[Len(b)])

\* CBC: each block is xored with the previous ciphertext block (the iv for
\* the first) before it is encrypted
RECURSIVE CbcEncrypt(_, _, _)
CbcEncrypt(key, prev, b) ==
    IF b = << >> THEN << >>
    ELSE LET block == BlockEncrypt(key, XorBlock(SubSeq(b, 1, BlockSize), prev))
         IN  block \o CbcEncrypt(key, block, SubSeq(b, BlockSize + 1, Len(b)))

RECURSIVE CbcDecrypt(_, _, _)
CbcDecrypt(key, prev, ct) ==
    IF ct = << >> THEN << >>
    ELSE LET block == SubSeq(ct, 1, BlockSize)
         IN  XorBlock(BlockDecrypt(key, block), prev)
                \o CbcDecrypt(key, block, SubSeq(ct, BlockSize + 1, Len(ct)))

\* encryptedData.split(':'): the part before the first ':' (the whole
\* string when there is none) and the other parts joined with ':' again
FirstColon(str) ==
    IF \E i \in 1..Len(str) : str[i] = Colon
    THEN CHOOSE i \in 1..Len(str) :
            str[i] = Colon /\ \A j \in 1..(i - 1) : str[j] # Colon
    ELSE Len(str) + 1

\* aesIGE.encrypt(data, key) with the iv that crypto.randomBytes(16) drew;
\* the key is a Buffer at every call, so keyBuffer is the key
AesIgeEncrypt(data, key, iv) ==
    ToHex(iv) \o <<Colon>>
        \o ToHex(CbcEncrypt(key, iv, Pkcs7Pad(Utf8Encode(data))))

\* aesIGE.decrypt(encryptedData, key): ok = FALSE when createDecipheriv or
\* decipher.final throws (iv not 16 bytes, input no whole number of
\* blocks, bad padding)
AesIgeDecrypt(encryptedData, key) ==
    LET iv == FromHex(SubSeq(encryptedData, 1, FirstColon(encryptedData) - 1))
        encryptedText == FromHex(SubSeq(encryptedData,
                                        FirstColon(encryptedData) + 1,
                                        Len(encryptedData)))
        decrypted == CbcDecrypt(key, iv, encryptedText)
    IN  IF \/ Len(iv) # BlockSize
           \/ Len(key) # KeySize
           \/ encryptedText = << >>
           \/ (Len(encryptedText) % BlockSize) # 0
        THEN [ok |-> FALSE, text |-> << >>]
        ELSE IF ~Pkcs7Ok(decrypted)
        THEN [ok |-> FALSE, text |-> << >>]
        ELSE [ok |-> TRUE, text |-> Utf8Decode(Pkcs7Unpad(decrypted))]

\* encryptUserData: one fresh key for the row, one fresh iv per field
EncryptUserData(userData, encryptionKey, ivs) ==
    [email |-> userData.email,
     first_name |-> AesIgeEncrypt(userData.firstName, encryptionKey, ivs[1]),
     last_name |-> AesIgeEncrypt(userData.lastName, encryptionKey, ivs[2]),
     phone |-> IF Falsy(userData.phone) THEN NullStr
               ELSE AesIgeEncrypt(userData.phone, encryptionKey, ivs[3]),
     encryption_key |-> ToHex(encryptionKey)]

\* the "plain data" decryptUserData returns when the row has no key, and
\* again from its catch block: the columns as they are stored
PlainData(encryptedUser) ==
    [error |-> "",
     email |-> encryptedUser.email,
     firstName |-> IF Falsy(encryptedUser.first_name) THEN << >>
                   ELSE encryptedUser.first_name,
     lastName |-> IF Falsy(encryptedUser.last_name) THEN << >>
                  ELSE encryptedUser.last_name,
     phone |-> IF Falsy(encryptedUser.phone) THEN NullStr
               ELSE encryptedUser.phone]

\* field ? await aesIGE.decrypt(field, encryptionKey) : empty
DecryptField(field, encryptionKey, empty) ==
    IF Falsy(field) THEN [ok |-> TRUE, text |-> empty]
    ELSE AesIgeDecrypt(field, encryptionKey)

\* decryptUserData: never throws
DecryptUserData(encryptedUser) ==
    IF Falsy(encryptedUser.encryption_key) THEN PlainData(encryptedUser)
    ELSE LET encryptionKey == FromHex(encryptedUser.encryption_key)
             firstName == DecryptField(encryptedUser.first_name, encryptionKey, << >>)
             lastName == DecryptField(encryptedUser.last_name, encryptionKey, << >>)
             phone == DecryptField(encryptedUser.phone, encryptionKey, NullStr)
         IN  IF firstName.ok /\ lastName.ok /\ phone.ok
             THEN [error |-> "",
                   email |-> encryptedUser.email,
                   firstName |-> firstName.text,
                   lastName |-> lastName.text,
                   phone |-> phone.text]
             ELSE PlainData(encryptedUser)

\* ------------------------------------------------------------------- Redis
\* redis.get(`session:${userId}`): a key past its TTL is a miss
RedisHas(key) == key \in DOMAIN redis /\ redis[key].ttl > 0

\* redis.setEx(key, ttl, JSON.stringify(sessionData))
RedisSetEx(key, ttl, sessionData) ==
    [k \in (DOMAIN redis) \cup {key} |->
        IF k = key
        THEN [session_id |-> sessionData.session_id,
              auth_key |-> sessionData.auth_key,
              ttl |-> ttl]
        ELSE redis[k]]

\* redis.del(key)
RedisDel(key) == [k \in (DOMAIN redis) \ {key} |-> redis[k]]

\* ------------------------------------------------------------- AuthService
\* crypto.randomBytes(256).toString('hex') of the n-th session: a value
\* that is no session id
AuthKey(n) == MaxTokens + n

\* MTProtoAuth.createSession: crypto.randomUUID() and a random auth key
CreateSession == [session_id |-> nextToken + 1, auth_key |-> AuthKey(nextToken + 1)]

\* MTProtoAuth.restoreSession: returns its argument
RestoreSession(sessionData) == sessionData

\* findUserInMySQL: SELECT * FROM users WHERE email = ?  (rows[0] || null)
HasUser(email) == \E r \in users : r.email = email

FindUserInMySQL(email) == CHOOSE r \in users : r.email = email

\* the row written by INSERT INTO users (email, password_hash): the id is
\* the AUTO_INCREMENT of the table just created, every other column NULL
InsertedRow(email, password_hash) ==
    [id |-> FirstInsertId, email |-> email, password_hash |-> password_hash,
     session_id |-> NullTok, auth_key |-> NullTok, encryption_key |-> NullStr,
     first_name |-> NullStr, last_name |-> NullStr, phone |-> NullStr]

\* storeUserInMySQL: DROP TABLE users, CREATE TABLE users, INSERT; on any
\* MySQL error the catch block returns a random dummy id instead
StoreUserInMySQL(email, password_hash, mysqlUp, dummy) ==
    IF mysqlUp
    THEN [table |-> {InsertedRow(email, password_hash)},
          insertId |-> FirstInsertId, inserted |-> TRUE]
    ELSE [table |-> users, insertId |-> dummy, inserted |-> FALSE]

\* cacheUserSession: errors of Redis are swallowed
CacheUserSession(userId, sessionData, redisUp) ==
    IF redisUp THEN RedisSetEx(userId, SessionTTL, sessionData) ELSE redis

\* verifySession: miss -> false, hit -> session_id === sessionId,
\* any error of Redis -> true
VerifySession(userId, sessionId, redisUp) ==
    IF ~redisUp THEN TRUE
    ELSE IF ~RedisHas(userId) THEN FALSE
    ELSE redis[userId].session_id = sessionId

\* logout: redis.del; errors are swallowed, success either way
LogoutRedis(userId, redisUp) == IF redisUp THEN RedisDel(userId) ELSE redis

\* -------------------------------------------------------------- middleware
\* variant of MissingCredentials that tests only the userId
MissingCredentials_OnlyUserId(userId, sessionId) == FalsyId(userId)

\* requireAuth / requireAuthHTML: if (!userId || !sessionId)
MissingCredentials(userId, sessionId) == FalsyId(userId) \/ FalsyTok(sessionId)

\* the decision of requireAuth for the credentials carried by the session
\* (verifySession catches every error itself, so the 500 AUTH_ERROR branch
\* of requireAuth's own catch is never taken)
GuardDecision(userId, sessionId, redisUp) ==
    IF MissingCredentials(userId, sessionId)
    THEN [next |-> FALSE, status |-> 401, code |-> "AUTH_REQUIRED",
          destroy |-> FALSE, storeOps |-> 0]
    ELSE IF ~VerifySession(userId, sessionId, redisUp)
    THEN [next |-> FALSE, status |-> 401, code |-> "SESSION_INVALID",
          destroy |-> TRUE, storeOps |-> 1]
    ELSE [next |-> TRUE, status |-> 200, code |-> "",
          destroy |-> FALSE, storeOps |-> 1]

\* requireGuest: a session with a truthy userId is redirected to /messages
IsGuest(c) == FalsyId(sess[c].userId)

\* ------------------------------------------------------------ HTTP session
EmptySession == [userId |-> NullId, sessionId |-> NullTok, maxAge |-> 0]

\* req.session.userId = ...; req.session.sessionId = ...  (Set-Cookie)
SetSession(c, userId, sessionId) ==
    [sess EXCEPT ![c] = [userId |-> userId, sessionId |-> sessionId,
                         maxAge |-> CookieMaxAge]]

\* req.session.destroy()
DestroySession(c) == [sess EXCEPT ![c] = EmptySession]

\* req.session.touch(), which express-session also calls at the end of
\* every request that carries a session: the session now expires maxAge
\* from this request (the data of the session is left as it is)
Touch(c) ==
    IF sess[c] = EmptySession THEN sess
    ELSE [sess EXCEPT ![c].maxAge = CookieMaxAge]

NoOwner == [email |-> "", via |-> ""]

\* a session issued now to the account of email e by register or by login
IssuedTo(e, via) == [email |-> e, via |-> via]

\* the sessions that are gone have no owner
KeepOwners(s) ==
    [k \in Clients |-> IF s[k] = EmptySession THEN NoOwner ELSE owner[k]]

\* ----------------------------------------------------------------- MongoDB
NoDoc == [user_id |-> NullId, mtproto_session |-> NullTok]

\* variant of ProfileDoc that files the auth key of the session
ProfileDoc_WithAuthKey(userId, sessionData) ==
    [user_id |-> userId, mtproto_session |-> sessionData.auth_key]

\* the document register hands to storeUserProfileInMongoDB (gender and
\* birth date, which it copies from the request, are not followed)
ProfileDoc(userId, sessionData) ==
    [user_id |-> userId, mtproto_session |-> sessionData.session_id]

\* storeUserProfileInMongoDB: collection.insertOne
StoreUserProfileInMongoDB(doc) == Append(mongo, doc)

\* getUserProfileFromMongoDB: collection.findOne({ user_id }), the first
\* document filed under the id, or null
GetUserProfileFromMongoDB(userId) ==
    IF \E i \in 1..Len(mongo) : mongo[i].user_id = userId
    THEN mongo[CHOOSE i \in 1..Len(mongo) :
                 /\ mongo[i].user_id = userId
                 /\ \A j \in 1..(i - 1) : mongo[j].user_id # userId]
    ELSE NoDoc

\* ---------------------------------------------------------- UserRepository
\* the columns of the users table storeUserInMySQL creates
UsersColumns ==
    {"id", "email", "password_hash", "session_id", "auth_key",
     "encryption_key", "first_name", "last_name", "phone", "created_at"}

\* the columns findById selects
FindByIdColumns ==
    {"id", "username", "email", "display_name", "bio", "avatar_url",
     "is_active", "is_verified", "created_at"}

NoUser == [id |-> NullId, email |-> "", columns |-> {}]

\* UserRepository.findById: the SELECT throws on a column the table does
\* not have, else it returns rows[0] || null
FindById(id) ==
    IF ~(FindByIdColumns \subseteq UsersColumns)
    THEN [threw |-> TRUE, user |-> NoUser]
    ELSE IF \E r \in users : r.id = id
    THEN [threw |-> FALSE,
          user |-> [id |-> id,
                    email |-> (CHOOSE r \in users : r.id = id).email,
                    columns |-> FindByIdColumns]]
    ELSE [threw |-> FALSE, user |-> NoUser]

\* UserService.getProfile: throws when findById throws or finds no user,
\* else returns the user without its password property
GetProfile(userId) ==
    LET found == FindById(userId)
    IN  IF found.threw \/ found.user = NoUser
        THEN [threw |-> TRUE, profile |-> NoUser]
        ELSE [threw |-> FALSE,
              profile |-> [found.user EXCEPT !.columns = @ \ {"password"}]]

\* ---------------------------------------------------------- response bodies
\* A JSON body is written as its leaves: pairs of path and value, the
\* numbers (ids, session ids, keys), the strings and the strings that are
\* kept as code units apart.
NoBody == [nums |-> {}, strs |-> {}, chars |-> {}]

\* { success, message }
JsonBody(success, message) ==
    [nums |-> {},
     strs |-> {<<"success", IF success THEN "true" ELSE "false">>,
               <<"message", message>>},
     chars |-> {}]

\* { success: false, message, code } of the middleware
CodeBody(message, code) ==
    [JsonBody(FALSE, message) EXCEPT !.strs = @ \cup {<<"code", code>>}]

\* what AuthService.register returns
RegisterResult(userId, sessionData) ==
    [userId |-> userId, sessionId |-> sessionData.session_id]

\* AuthController.register: res.status(201).json(...)
RegisterBody(result) ==
    [JsonBody(TRUE, "User registered successfully with MTProto encryption")
        EXCEPT !.nums = {<<"data.userId", result.userId>>,
                         <<"data.sessionId", result.sessionId>>}]

\* what AuthService.login returns
LoginResult(user, decryptedUserData, userProfile, sessionData) ==
    [user |-> [id |-> user.id,
               email |-> decryptedUserData.email,
               firstName |-> decryptedUserData.firstName,
               lastName |-> decryptedUserData.lastName,
               phone |-> decryptedUserData.phone,
               profile |-> userProfile],
     sessionId |-> sessionData.session_id,
     token |-> sessionData.auth_key]

\* AuthController.login: res.json(...) picks id, firstName, lastName, email,
\* profile and sessionId out of the result
LoginBody(result) ==
    [nums |-> {<<"data.user.id", result.user.id>>,
               <<"data.sessionId", result.sessionId>>}
              \cup (IF result.user.profile = NoDoc THEN {}
                    ELSE {<<"data.user.profile.user_id",
                            result.user.profile.user_id>>,
                          <<"data.user.profile.metadata.mtproto_session",
                            result.user.profile.mtproto_session>>}),
     strs |-> JsonBody(TRUE, "Login successful").strs
              \cup {<<"data.user.email", result.user.email>>}
              \cup (IF result.user.profile = NoDoc
                    THEN {<<"data.user.profile", "null">>}
                    ELSE {<<"data.user.profile.metadata.encryption_version", "1.0">>}),
     chars |-> {<<"data.user.firstName", result.user.firstName>>,
                <<"data.user.lastName", result.user.lastName>>}]

\* AuthController.checkAuth: res.json(...)
CheckAuthBody(userId, sessionId) ==
    [nums |-> {<<"userId", userId>>, <<"sessionId", sessionId>>},
     strs |-> {<<"success", "true">>, <<"authenticated", "true">>},
     chars |-> {}]

\* UserController.getProfile: res.json({ success: true, data: profile })
UserProfileBody(profile) ==
    [nums |-> {<<"data.id", profile.id>>},
     strs |-> {<<"success", "true">>, <<"data.email", profile.email>>}
              \cup {<<"data." \o col, "">> :
                        col \in profile.columns \ {"id", "email"}},
     chars |-> {}]

\* UserController.getProfile: res.status(500).json({ error })
ErrorBody(error) ==
    [nums |-> {}, strs |-> {<<"error", error>>}, chars |-> {}]

\* -------------------------------------------------------------------- last
NoLast ==
    [op |-> "none", client |-> "none", down |-> {},
     userId |-> NullId, sessionId |-> NullTok,
     email |-> "", password |-> "", rememberMe |-> FALSE,
     existed |-> FALSE, hit |-> FALSE,
     hadRecord |-> FALSE, next |-> FALSE, status |-> 0, code |-> "",
     storeOps |-> 0, resUserId |-> NullId, resSessionId |-> NullTok,
     ctxUserId |-> NullId, ctxUserObjId |-> NullId, ctxSessionId |-> NullTok,
     body |-> NoBody,
     expired |-> {}]    \* of a tick: the Redis records that ran out in it

NoReg == [id |-> NullId, password |-> "", sessionId |-> NullTok, inserted |-> FALSE]

\* the field cipher has not been put to work
CxIdle ==
    [pc |-> "idle", data |-> << >>, key |-> << >>, sealed |-> << >>,
     opened |-> [ok |-> FALSE, text |-> << >>],
     row |-> [email |-> "", first_name |-> NullStr, last_name |-> NullStr,
              phone |-> NullStr, encryption_key |-> NullStr],
     out |-> [error |-> "", email |-> "", firstName |-> << >>,
              lastName |-> << >>, phone |-> NullStr]]

\* a registration that has not arrived
RqIdle ==
    [pc |-> "idle", email |-> "", password |-> "",
     session_id |-> NullTok, userId |-> NullId,
     inserts |-> 0]     \* the INSERT statements it has issued

\* no registration in flight; the tables users and user_sessions of
\* database/schema.sql are there, users is empty
RaceIdle ==
    [rq |-> [c \in Clients |-> RqIdle],
     tables |-> {"users", "user_sessions"},
     autoInc |-> FirstInsertId]

Init ==
    /\ users = {}
    /\ redis = << >>
    /\ mongo = << >>
    /\ sess = [c \in Clients |-> EmptySession]
    /\ nextToken = 0
    /\ last = NoLast
    /\ reg = [e \in Emails |-> NoReg]
    /\ owner = [c \in Clients |-> NoOwner]
    /\ cx = CxIdle
    /\ race = RaceIdle

\* what is in Redis for the credentials the request presents (pre-state)
HadRecord(userId) == RedisHas(userId)

HadMatch(userId, sessionId) ==
    RedisHas(userId) /\ redis[userId].session_id = sessionId

Request(op, c, down) ==
    [NoLast EXCEPT !.op = op, !.client = c, !.down = down,
                   !.userId = sess[c].userId, !.sessionId = sess[c].sessionId,
                   !.hadRecord = HadRecord(sess[c].userId),
                   !.hit = HadMatch(sess[c].userId, sess[c].sessionId)]

\* POST /api/auth/register or /api/auth/login from a client whose session
\* has a userId: requireGuest answers with res.redirect('/messages')
GuestRedirect(c) ==
    /\ ~IsGuest(c)
    /\ last' = [Request("requireGuest", c, {}) EXCEPT
                   !.status = 302, !.code = "REDIRECT_MESSAGES"]
    /\ sess' = Touch(c)
    /\ UNCHANGED <<users, redis, mongo, nextToken, reg, owner, cx, race>>

\* the profile fields of the body of a registration with email e
RegisterData(e) ==
    [email |-> e, firstName |-> <<65>>, lastName |-> <<66>>, phone |-> <<53>>]

\* what encryptUserData makes of the registration with email e when it is
\* the n-th to draw a key
EncryptedData ==
    [e \in Emails |->
        [n \in 1..MaxTokens |->
            EncryptUserData(RegisterData(e), GenerateKey(n),
                            <<RandomBytes(BlockSize, 1),
                              RandomBytes(BlockSize, 2),
                              RandomBytes(BlockSize, 3)>>)]]

\* POST /api/auth/register from a guest: requireGuest,
\* AuthController.register, AuthService.register
Register(c, e, p, down, dummy) ==
    /\ IsGuest(c)
    /\ nextToken < MaxTokens
    /\ LET encryptedData == EncryptedData[e][nextToken + 1]
           sessionData == CreateSession
           hashedPassword == BcryptHash(p)
           \* of encryptedData, the INSERT takes the email only
           stored == StoreUserInMySQL(encryptedData.email, hashedPassword,
                                      "mysql" \notin down, dummy)
           userId == stored.insertId
           result == RegisterResult(userId, sessionData)
           req == [Request("register", c, down) EXCEPT
                      !.email = e, !.password = p, !.existed = HasUser(e),
                      !.next = TRUE]
       IN  /\ nextToken' = nextToken + 1
           /\ users' = stored.table
           /\ mongo' = StoreUserProfileInMongoDB(ProfileDoc(userId, sessionData))
           /\ redis' = CacheUserSession(userId, sessionData, "redis" \notin down)
           /\ sess' = SetSession(c, result.userId, result.sessionId)
           /\ reg' = [reg EXCEPT ![e] =
                        [id |-> result.userId, password |-> p,
                         sessionId |-> result.sessionId,
                         inserted |-> stored.inserted]]
           /\ owner' = [owner EXCEPT ![c] = IssuedTo(e, "register")]
           /\ last' = [req EXCEPT !.status = 201,
                         !.code = "REGISTERED", !.storeOps = 1,
                         !.resUserId = result.userId,
                         !.resSessionId = result.sessionId,
                         !.body = RegisterBody(result)]
    /\ UNCHANGED <<cx, race>>

\* the message of the error AuthService.login throws before it gets to the
\* session ("" when it throws none): the query fails, no row, wrong password
LoginError(e, p, mysqlUp) ==
    IF ~mysqlUp THEN "connect ECONNREFUSED"
    ELSE IF ~HasUser(e) THEN "User not found"
    ELSE IF ~BcryptCompare(p, FindUserInMySQL(e).password_hash)
    THEN "Invalid credentials"
    ELSE ""

\* variant of LoginFailure that answers 404 when there is no such user
LoginFailure_TellsApart(message) ==
    IF message = "User not found"
    THEN [status |-> 404, code |-> "USER_NOT_FOUND",
          body |-> JsonBody(FALSE, "User not found")]
    ELSE IF message = "Invalid credentials"
    THEN [status |-> 401, code |-> "INVALID_EMAIL_OR_PASSWORD",
          body |-> JsonBody(FALSE, "Invalid email or password")]
    ELSE [status |-> 500, code |-> "LOGIN_FAILED",
          body |-> [JsonBody(FALSE, "Login failed") EXCEPT
                        !.strs = @ \cup {<<"error", "Internal server error">>}]]

\* the catch block of AuthController.login ('Failed to login: ' + message
\* includes 'User not found' or 'Invalid credentials': 401, else 500 with
\* the error text of a production build)
LoginFailure(message) ==
    IF message \in {"User not found", "Invalid credentials"}
    THEN [status |-> 401, code |-> "INVALID_EMAIL_OR_PASSWORD",
          body |-> JsonBody(FALSE, "Invalid email or password")]
    ELSE [status |-> 500, code |-> "LOGIN_FAILED",
          body |-> [JsonBody(FALSE, "Login failed") EXCEPT
                        !.strs = @ \cup {<<"error", "Internal server error">>}]]

\* the stores login(e, p) gets to: MySQL first, Redis only once the
\* password has been verified (an outage elsewhere goes unnoticed)
LoginConsults(e, p, down) ==
    IF /\ "mysql" \notin down
       /\ HasUser(e)
       /\ BcryptCompare(p, FindUserInMySQL(e).password_hash)
    THEN {"mysql", "redis"} ELSE {"mysql"}

\* the stores the guard gets to: Redis, unless the credentials are missing
GuardConsults(c) ==
    IF FalsyId(sess[c].userId) \/ FalsyTok(sess[c].sessionId) THEN {} ELSE {"redis"}

\* POST /api/auth/login from a guest: requireGuest, AuthController.login,
\* AuthService.login (rememberMe is looked at only once AuthService.login
\* has returned)
Login(c, e, p, rememberMe, down) ==
    /\ IsGuest(c)
    /\ down \subseteq LoginConsults(e, p, down)
    /\ (rememberMe => "redis" \in LoginConsults(e, p, down))
    /\ LET req == [Request("login", c, down) EXCEPT
                   !.email = e, !.password = p, !.rememberMe = rememberMe,
                   !.existed = HasUser(e), !.next = TRUE]
       IN
       IF LoginError(e, p, "mysql" \notin down) # ""
       THEN \* AuthService.login throws, AuthController.login catches
            /\ last' = [req EXCEPT
                           !.status = LoginFailure(LoginError(e, p, "mysql" \notin down)).status,
                           !.code = LoginFailure(LoginError(e, p, "mysql" \notin down)).code,
                           !.body = LoginFailure(LoginError(e, p, "mysql" \notin down)).body]
            /\ sess' = Touch(c)
            /\ UNCHANGED <<redis, owner>>
       ELSE LET user == FindUserInMySQL(e)
                sessionData == RestoreSession([session_id |-> user.session_id,
                                               auth_key |-> user.auth_key])
                result == LoginResult(user, DecryptUserData(user),
                                      GetUserProfileFromMongoDB(user.id),
                                      sessionData)
            IN  /\ redis' = CacheUserSession(user.id, sessionData,
                                             "redis" \notin down)
                /\ sess' = SetSession(c, result.user.id, result.sessionId)
                /\ owner' = [owner EXCEPT ![c] = IssuedTo(e, "login")]
                /\ last' = [req EXCEPT !.status = 200,
                              !.code = "LOGIN_OK", !.storeOps = 1,
                              !.resUserId = result.user.id,
                              !.resSessionId = result.sessionId,
                              !.body = LoginBody(result)]
    /\ UNCHANGED <<users, mongo, nextToken, reg, cx, race>>

\* the body the guard answers with when it does not call next()
GuardBody(code) ==
    IF code = "AUTH_REQUIRED" THEN CodeBody("Authentication required", code)
    ELSE IF code = "SESSION_INVALID" THEN CodeBody("Session expired or invalid", code)
    ELSE NoBody

\* the requireAuth stage of a route, applied to the session of client c
Guarded(op, c, down) ==
    LET d == GuardDecision(sess[c].userId, sess[c].sessionId, "redis" \notin down)
    IN  [Request(op, c, down) EXCEPT
            !.next = d.next, !.status = d.status, !.code = d.code,
            !.storeOps = d.storeOps,
            !.ctxUserId = IF d.next THEN sess[c].userId ELSE NullId,
            !.ctxUserObjId = IF d.next THEN sess[c].userId ELSE NullId,
            !.ctxSessionId = IF d.next THEN sess[c].sessionId ELSE NullTok,
            !.body = GuardBody(d.code)]

\* variant of AfterGuard that leaves the session of a rejected request
AfterGuard_KeepsSession(c, down) == Touch(c)

\* the session of client c after the guard has answered
AfterGuard(c, down) ==
    IF GuardDecision(sess[c].userId, sess[c].sessionId, "redis" \notin down).destroy
    THEN DestroySession(c) ELSE Touch(c)

\* POST /api/auth/refresh : requireAuth, AuthController.refreshSession
\* (req.session.touch() renews the expiry of the HTTP session only)
Refresh(c, down) ==
    LET d == GuardDecision(sess[c].userId, sess[c].sessionId, "redis" \notin down)
    IN  /\ down \subseteq GuardConsults(c)
        /\ last' = [Guarded("requireAuth", c, down) EXCEPT
                       !.body = IF d.next THEN JsonBody(TRUE, "Session refreshed")
                                ELSE @]
        /\ sess' = AfterGuard(c, down)
        /\ owner' = KeepOwners(AfterGuard(c, down))
        /\ UNCHANGED <<users, redis, mongo, nextToken, reg, cx, race>>

\* a page behind requireAuthHTML: same decision, answered by a redirect
Page(c, down) ==
    LET d == GuardDecision(sess[c].userId, sess[c].sessionId, "redis" \notin down)
    IN  /\ down \subseteq GuardConsults(c)
        /\ last' = [Guarded("requireAuthHTML", c, down) EXCEPT
                       !.status = IF d.next THEN 200 ELSE 302,
                       !.code = IF d.next THEN "" ELSE "REDIRECT_LOGIN",
                       !.body = NoBody]
        /\ sess' = AfterGuard(c, down)
        /\ owner' = KeepOwners(AfterGuard(c, down))
        /\ UNCHANGED <<users, redis, mongo, nextToken, reg, cx, race>>

\* POST /api/auth/logout : requireAuth, AuthController.logout,
\* AuthService.logout
Logout(c, down) ==
    LET d == GuardDecision(sess[c].userId, sess[c].sessionId, "redis" \notin down)
    IN  /\ down \subseteq GuardConsults(c)
        /\ IF d.next
           THEN /\ redis' = LogoutRedis(sess[c].userId, "redis" \notin down)
                /\ sess' = DestroySession(c)
                /\ owner' = KeepOwners(DestroySession(c))
                /\ last' = [Guarded("logout", c, down) EXCEPT
                               !.code = "LOGGED_OUT", !.storeOps = d.storeOps + 1,
                               !.body = JsonBody(TRUE, "Logged out successfully")]
           ELSE /\ last' = Guarded("requireAuth", c, down)
                /\ sess' = AfterGuard(c, down)
                /\ owner' = KeepOwners(AfterGuard(c, down))
                /\ UNCHANGED redis
        /\ UNCHANGED <<users, mongo, nextToken, reg, cx, race>>

\* GET /api/auth/profile : requireAuth, validateMTProtoSession,
\* AuthController.getProfile.  validateMTProtoSession calls
\* authService.validateMTProtoSession, which AuthService does not have: the
\* TypeError lands in its catch block (500 MTPROTO_VALIDATION_ERROR)
Profile(c, down) ==
    LET d == GuardDecision(sess[c].userId, sess[c].sessionId, "redis" \notin down)
    IN  /\ down \subseteq GuardConsults(c)
        /\ last' = IF d.next
                   THEN [Guarded("profile", c, down) EXCEPT
                            !.status = 500, !.code = "MTPROTO_VALIDATION_ERROR",
                            !.body = CodeBody("MTProto session validation failed",
                                              "MTPROTO_VALIDATION_ERROR")]
                   ELSE Guarded("requireAuth", c, down)
        /\ sess' = AfterGuard(c, down)
        /\ owner' = KeepOwners(AfterGuard(c, down))
        /\ UNCHANGED <<users, redis, mongo, nextToken, reg, cx, race>>

\* GET /api/auth/check : AuthController.checkAuth, no middleware
CheckAuth(c) ==
    /\ last' = IF FalsyId(sess[c].userId) \/ FalsyTok(sess[c].sessionId)
               THEN [Request("checkAuth", c, {}) EXCEPT
                        !.status = 401, !.code = "NOT_AUTHENTICATED",
                        !.body = JsonBody(FALSE, "Not authenticated")]
               ELSE [Request("checkAuth", c, {}) EXCEPT
                        !.status = 200, !.code = "AUTHENTICATED",
                        !.resUserId = sess[c].userId,
                        !.resSessionId = sess[c].sessionId,
                        !.body = CheckAuthBody(sess[c].userId, sess[c].sessionId)]
    /\ sess' = Touch(c)
    /\ UNCHANGED <<users, redis, mongo, nextToken, reg, owner, cx, race>>

\* GET /api/users/profile : requireAuth (mounted on /api/users),
\* UserController.getProfile, UserService.getProfile
UserProfile(c, down) ==
    LET d == GuardDecision(sess[c].userId, sess[c].sessionId, "redis" \notin down)
        got == GetProfile(sess[c].userId)
    IN  /\ down \subseteq GuardConsults(c)
        /\ last' = IF ~d.next THEN Guarded("requireAuth", c, down)
                   ELSE IF got.threw
                   THEN [Guarded("userProfile", c, down) EXCEPT
                            !.status = 500, !.code = "INTERNAL_ERROR",
                            !.body = ErrorBody("Internal server error")]
                   ELSE [Guarded("userProfile", c, down) EXCEPT
                            !.status = 200, !.code = "PROFILE",
                            !.body = UserProfileBody(got.profile)]
        /\ sess' = AfterGuard(c, down)
        /\ owner' = KeepOwners(AfterGuard(c, down))
        /\ UNCHANGED <<users, redis, mongo, nextToken, reg, cx, race>>

\* what is left of the sessions after 12 hours without a request
AgedSessions ==
    [c \in Clients |->
        IF sess[c].maxAge > 1
        THEN [sess[c] EXCEPT !.maxAge = @ - 1] ELSE EmptySession]

\* 12 hours pass: Redis drops the keys whose TTL has run out, the session
\* store drops the sessions whose maxAge has run out
Tick ==
    /\ (DOMAIN redis # {} \/ \E c \in Clients : sess[c] # EmptySession)
    /\ redis' = [k \in {j \in DOMAIN redis : redis[j].ttl > 1} |->
                    [redis[k] EXCEPT !.ttl = @ - 1]]
    /\ sess' = AgedSessions
    /\ owner' = KeepOwners(AgedSessions)
    /\ last' = [NoLast EXCEPT !.op = "tick",
                              !.expired = {<<k, redis[k].session_id>> :
                                            k \in {j \in DOMAIN redis :
                                                     redis[j].ttl = 1}}]
    /\ UNCHANGED <<users, mongo, nextToken, reg, cx, race>>

\* the stores a request can find unreachable
Outages == SUBSET Stores

RedisOutages == {{}, {"redis"}}

Next ==
    \/ \E c \in Clients, e \in Emails, p \in Passwords,
          down \in Outages, dummy \in DummyIds : Register(c, e, p, down, dummy)
    \/ \E c \in Clients, e \in Emails, p \in LoginPasswords,
          rememberMe \in BOOLEAN, down \in Outages :
            Login(c, e, p, rememberMe, down)
    \/ \E c \in Clients : GuestRedirect(c)
    \/ \E c \in Clients, down \in RedisOutages : Refresh(c, down)
    \/ \E c \in Clients, down \in RedisOutages : Page(c, down)
    \/ \E c \in Clients, down \in RedisOutages : Logout(c, down)
    \/ \E c \in Clients, down \in RedisOutages : Profile(c, down)
    \/ \E c \in Clients, down \in RedisOutages : UserProfile(c, down)
    \/ \E c \in Clients : CheckAuth(c)
    \/ Tick

Spec == Init /\ [][Next]_vars

\* ------------------------------------------------- the field cipher at work
\* the strings of at most MaxLen code units
Plaintexts == UNION {[1..n -> CodeUnits] : n \in 0..MaxLen}

\* what register passes to encryptUserData (firstName and lastName are
\* required by the controller, phone is optional)
UserDatas ==
    {[email |-> "a@x.com", firstName |-> f, lastName |-> <<66>>, phone |-> ph] :
        f \in Plaintexts \ {<< >>}, ph \in {NullStr, <<53>>}}

\* the ways a stored row gets out of step with its key
Damages == {"truncated", "corrupted", "wrong key"}

Damaged(row, kind) ==
    IF kind = "truncated"
    THEN [row EXCEPT !.first_name = SubSeq(@, 1, Len(@) - 1)]
    ELSE IF kind = "corrupted"
    THEN [row EXCEPT !.first_name =
            [@ EXCEPT ![Len(@)] = IF @ = HexDigit(0) THEN HexDigit(1) ELSE HexDigit(0)]]
    ELSE [row EXCEPT !.encryption_key =
            IF @ = ToHex(GenerateKey(1)) THEN ToHex(GenerateKey(2))
            ELSE ToHex(GenerateKey(1))]

\* aesIGE.encrypt(data, key)
Seal(data, seed, ivSeed) ==
    /\ cx.pc = "idle"
    /\ cx' = [cx EXCEPT !.pc = "sealed", !.data = data,
                        !.key = GenerateKey(seed),
                        !.sealed = AesIgeEncrypt(data, GenerateKey(seed),
                                                 RandomBytes(BlockSize, ivSeed))]
    /\ UNCHANGED <<users, redis, mongo, sess, nextToken, last, reg, owner, race>>

\* aesIGE.decrypt(encryptedData, key)
Open ==
    /\ cx.pc = "sealed"
    /\ cx' = [cx EXCEPT !.pc = "opened",
                        !.opened = AesIgeDecrypt(cx.sealed, cx.key)]
    /\ UNCHANGED <<users, redis, mongo, sess, nextToken, last, reg, owner, race>>

\* a users row with every column of encryptUserData in it
StoreRow(userData, seed, ivSeed) ==
    /\ cx.pc = "idle"
    /\ cx' = [cx EXCEPT !.pc = "stored",
                        !.row = EncryptUserData(userData, GenerateKey(seed),
                                    <<RandomBytes(BlockSize, ivSeed),
                                      RandomBytes(BlockSize, ivSeed + 1),
                                      RandomBytes(BlockSize, ivSeed + 2)>>)]
    /\ UNCHANGED <<users, redis, mongo, sess, nextToken, last, reg, owner, race>>

\* the row is damaged where it is kept
Damage(kind) ==
    /\ cx.pc = "stored"
    /\ cx' = [cx EXCEPT !.pc = "damaged", !.row = Damaged(cx.row, kind)]
    /\ UNCHANGED <<users, redis, mongo, sess, nextToken, last, reg, owner, race>>

\* decryptUserData(user), as login calls it
ReadRow ==
    /\ cx.pc \in {"stored", "damaged"}
    /\ cx' = [cx EXCEPT !.pc = "read", !.out = DecryptUserData(cx.row)]
    /\ UNCHANGED <<users, redis, mongo, sess, nextToken, last, reg, owner, race>>

NextCipher ==
    \/ \E data \in Plaintexts, seed \in Seeds, ivSeed \in Seeds :
            Seal(data, seed, ivSeed)
    \/ Open
    \/ \E userData \in UserDatas, seed \in Seeds, ivSeed \in Seeds :
            StoreRow(userData, seed, ivSeed)
    \/ \E kind \in Damages : Damage(kind)
    \/ ReadRow

SpecCipher == Init /\ [][NextCipher]_vars

\* ------------------------------------- registrations that run concurrently
\* AuthService.register awaits each of its storage calls, and
\* storeUserInMySQL awaits each of its statements: between two of them the
\* statements of another registration reach the one MySQL connection.

\* the registration of client c is at step pc
At(c, pc) == race.rq[c].pc = pc

\* the registration of client c moves on to step pc
Goto(c, pc) == [race EXCEPT !.rq[c].pc = pc]

\* a statement of storeUserInMySQL threw: its catch block returns a dummy id
\* and register goes on to MongoDB
Caught(c, dummy) ==
    [race EXCEPT !.rq[c].pc = "mongo", !.rq[c].userId = dummy]

\* the session createSession made for the registration of client c
SessionDataOf(c) ==
    [session_id |-> race.rq[c].session_id,
     auth_key |-> AuthKey(race.rq[c].session_id)]

\* INSERT INTO users (email, password_hash): fails without the table and on
\* an email the table has
InsertFails(e) == "users" \notin race.tables \/ HasUser(e)

\* POST /api/auth/register arrives: requireGuest, the controller,
\* encryptUserData, bcrypt.hash, createSession
RaceArrive(c, e, p) ==
    /\ At(c, "idle")
    /\ IsGuest(c)
    /\ nextToken < MaxTokens
    /\ \A k \in Clients : race.rq[k].email # e
    /\ nextToken' = nextToken + 1
    /\ race' = [race EXCEPT !.rq[c] =
                  [pc |-> "dropSessions", email |-> e, password |-> p,
                   session_id |-> CreateSession.session_id,
                   userId |-> NullId, inserts |-> 0]]
    /\ UNCHANGED <<users, redis, mongo, sess, last, reg, owner, cx>>

\* DROP TABLE IF EXISTS user_sessions
RaceDropSessions(c) ==
    /\ At(c, "dropSessions")
    /\ race' = [Goto(c, "dropUsers") EXCEPT !.tables = @ \ {"user_sessions"}]
    /\ UNCHANGED <<users, redis, mongo, sess, nextToken, last, reg, owner, cx>>

\* DROP TABLE IF EXISTS users: refused while user_sessions references it
RaceDropUsers(c, dummy) ==
    /\ At(c, "dropUsers")
    /\ IF "user_sessions" \in race.tables
       THEN race' = Caught(c, dummy) /\ UNCHANGED users
       ELSE /\ race' = [Goto(c, "createUsers") EXCEPT !.tables = @ \ {"users"}]
            /\ users' = {}
    /\ UNCHANGED <<redis, mongo, sess, nextToken, last, reg, owner, cx>>

\* CREATE TABLE users: fails when the table is there
RaceCreateUsers(c, dummy) ==
    /\ At(c, "createUsers")
    /\ race' = IF "users" \in race.tables THEN Caught(c, dummy)
               ELSE [Goto(c, "createSessions") EXCEPT
                        !.tables = @ \cup {"users"},
                        !.autoInc = FirstInsertId]
    /\ UNCHANGED <<users, redis, mongo, sess, nextToken, last, reg, owner, cx>>

\* CREATE TABLE user_sessions: fails when the table is there and when users,
\* which it references, is not
RaceCreateSessions(c, dummy) ==
    /\ At(c, "createSessions")
    /\ race' = IF "user_sessions" \in race.tables \/ "users" \notin race.tables
               THEN Caught(c, dummy)
               ELSE [Goto(c, "insert") EXCEPT
                        !.tables = @ \cup {"user_sessions"}]
    /\ UNCHANGED <<users, redis, mongo, sess, nextToken, last, reg, owner, cx>>

\* INSERT INTO users (email, password_hash); when it throws, the INSERT
\* with the explicit NULL id is tried
RaceInsert(c) ==
    /\ At(c, "insert")
    /\ IF InsertFails(race.rq[c].email)
       THEN /\ race' = [Goto(c, "insertWithId") EXCEPT !.rq[c].inserts = 1]
            /\ UNCHANGED users
       ELSE /\ users' = users \cup
                    {[InsertedRow(race.rq[c].email,
                                  BcryptHash(race.rq[c].password))
                        EXCEPT !.id = race.autoInc]}
            /\ race' = [Goto(c, "mongo") EXCEPT
                          !.rq[c].userId = race.autoInc,
                          !.rq[c].inserts = 1,
                          !.autoInc = @ + 1]
    /\ UNCHANGED <<redis, mongo, sess, nextToken, last, reg, owner, cx>>

\* INSERT INTO users (id, email, password_hash) VALUES (NULL, ?, ?)
RaceInsertWithId(c, dummy) ==
    /\ At(c, "insertWithId")
    /\ IF InsertFails(race.rq[c].email)
       THEN /\ race' = [Caught(c, dummy) EXCEPT !.rq[c].inserts = 2]
            /\ UNCHANGED users
       ELSE /\ users' = users \cup
                    {[InsertedRow(race.rq[c].email,
                                  BcryptHash(race.rq[c].password))
                        EXCEPT !.id = race.autoInc]}
            /\ race' = [Goto(c, "mongo") EXCEPT
                          !.rq[c].userId = race.autoInc,
                          !.rq[c].inserts = 2,
                          !.autoInc = @ + 1]
    /\ UNCHANGED <<redis, mongo, sess, nextToken, last, reg, owner, cx>>

\* storeUserProfileInMongoDB
RaceMongo(c) ==
    /\ At(c, "mongo")
    /\ mongo' = StoreUserProfileInMongoDB(
                    ProfileDoc(race.rq[c].userId, SessionDataOf(c)))
    /\ race' = Goto(c, "redis")
    /\ UNCHANGED <<users, redis, sess, nextToken, last, reg, owner, cx>>

\* cacheUserSession
RaceRedis(c) ==
    /\ At(c, "redis")
    /\ redis' = CacheUserSession(race.rq[c].userId, SessionDataOf(c), TRUE)
    /\ race' = Goto(c, "respond")
    /\ UNCHANGED <<users, mongo, sess, nextToken, last, reg, owner, cx>>

\* register returns; the controller sets the session and answers 201
RaceRespond(c) ==
    LET result == RegisterResult(race.rq[c].userId, SessionDataOf(c))
    IN  /\ At(c, "respond")
        /\ sess' = SetSession(c, result.userId, result.sessionId)
        /\ owner' = [owner EXCEPT ![c] = IssuedTo(race.rq[c].email, "register")]
        /\ reg' = [reg EXCEPT ![race.rq[c].email] =
                     [id |-> result.userId, password |-> race.rq[c].password,
                      sessionId |-> result.sessionId,
                      inserted |-> \E r \in users :
                                      /\ r.email = race.rq[c].email
                                      /\ r.id = result.userId]]
        /\ last' = [Request("register", c, {}) EXCEPT
                      !.email = race.rq[c].email,
                      !.password = race.rq[c].password,
                      !.next = TRUE, !.status = 201, !.code = "REGISTERED",
                      !.storeOps = 1,
                      !.resUserId = result.userId,
                      !.resSessionId = result.sessionId,
                      !.body = RegisterBody(result)]
        /\ race' = Goto(c, "done")
        /\ UNCHANGED <<users, redis, mongo, nextToken, cx>>

NextRace ==
    \/ \E c \in Clients, e \in Emails, p \in Passwords : RaceArrive(c, e, p)
    \/ \E c \in Clients : RaceDropSessions(c)
    \/ \E c \in Clients, dummy \in DummyIds : RaceDropUsers(c, dummy)
    \/ \E c \in Clients, dummy \in DummyIds : RaceCreateUsers(c, dummy)
    \/ \E c \in Clients, dummy \in DummyIds : RaceCreateSessions(c, dummy)
    \/ \E c \in Clients : RaceInsert(c)
    \/ \E c \in Clients, dummy \in DummyIds : RaceInsertWithId(c, dummy)
    \/ \E c \in Clients : RaceMongo(c)
    \/ \E c \in Clients : RaceRedis(c)
    \/ \E c \in Clients : RaceRespond(c)

SpecRace == Init /\ [][NextRace]_vars

TypeOK ==
    /\ nextToken \in 0..MaxTokens
    /\ \A c \in Clients : sess[c].sessionId \in 0..MaxTokens
    /\ \A r \in users : r.id = FirstInsertId

\* ------------------------------------------------------------------ claims
\* requests answered by the guard: the JSON guard (requireAuth, also in
\* front of logout) and the HTML guard (requireAuthHTML)
GuardOps == {"requireAuth", "requireAuthHTML", "logout", "profile", "userProfile"}

Presented == ~FalsyId(last.userId) /\ ~FalsyTok(last.sessionId)

\* C1: a request that carries a userId and a sessionId and is checked while
\* Redis is unreachable is never let through (next() is not called), and
\* requireAuth answers it with an auth-service error.
C1_FailClosed ==
    (last.op \in GuardOps /\ Presented /\ "redis" \in last.down)
        => (~last.next /\ (last.op = "requireAuth" => last.code = "AUTH_ERROR"))

\* C2: with every store reachable, a request that presents the id of account
\* B together with the session token register issued for another account A
\* is denied by the guard.
C2_SessionIsolation ==
    \A a \in Emails, b \in Emails :
        (/\ a # b
         /\ last.op \in GuardOps /\ Presented /\ last.down = {}
         /\ reg[a].sessionId = last.sessionId
         /\ reg[b] # NoReg /\ reg[b].id = last.userId)
            => ~last.next

\* C3: the guard lets a request through only if Redis then held a live
\* record under the userId whose session_id is the presented sessionId, and
\* the identity put on the request is the claimed one.
C3_AllowRule ==
    (last.op \in GuardOps /\ last.next)
        => /\ last.hit
           /\ last.ctxUserId = last.userId
           /\ last.ctxUserObjId = last.userId
           /\ last.ctxSessionId = last.sessionId

\* C4: when the guard rejects a request because verifySession returned
\* false, the Redis key of the claimed userId is deleted: right after the
\* request a get for that key is a miss.
C4_DefensiveInvalidation ==
    (last.op \in GuardOps /\ ~last.next /\ last.storeOps = 1)
        => ~RedisHas(last.userId)

\* C5: a request to a route behind requireAuth whose session lacks the
\* userId or the sessionId is answered 401 AUTH_REQUIRED, the handler is
\* not invoked and no Redis operation is performed for it.
C5_MissingCredentials ==
    (last.op \in {"requireAuth", "logout"}
        /\ (FalsyId(last.userId) \/ FalsyTok(last.sessionId)))
        => /\ last.op = "requireAuth"
           /\ last.status = 401
           /\ last.code = "AUTH_REQUIRED"
           /\ ~last.next
           /\ last.storeOps = 0

\* C5 witness: a session that has a userId but no sessionId was rejected
C5_Witness ==
    /\ last.op = "requireAuth"
    /\ ~FalsyId(last.userId) /\ FalsyTok(last.sessionId)
    /\ last.status = 401 /\ last.code = "AUTH_REQUIRED"

\* C6: right after a login that succeeded with every store reachable, a
\* protected request carrying the session that login set up is let through.
C6_LoginUsable ==
    (last.op = "login" /\ last.status = 200 /\ last.down = {})
        => GuardDecision(sess[last.client].userId,
                         sess[last.client].sessionId, TRUE).next

\* C7: a client holding the userId and sessionId of a registration that was
\* stored is let through for as long as Redis holds a record for that
\* userId (no logout, no expiry).
C7_RegisterUsable ==
    \A c \in Clients, e \in Emails :
        (/\ reg[e].inserted
         /\ sess[c].userId = reg[e].id
         /\ sess[c].sessionId = reg[e].sessionId
         /\ RedisHas(sess[c].userId))
            => GuardDecision(sess[c].userId, sess[c].sessionId, TRUE).next

\* C8: with every store reachable, a login for an email whose registration
\* was stored succeeds with the registered id when the password is the
\* registered one, and fails without setting up a session otherwise.
C8_RegisterThenVerify ==
    (last.op = "login" /\ last.next /\ last.down = {} /\ reg[last.email].inserted)
        => IF last.password = reg[last.email].password
           THEN last.status = 200 /\ last.resUserId = reg[last.email].id
           ELSE /\ last.status = 401
                /\ last.resSessionId = NullTok
                /\ sess[last.client].userId = last.userId

\* C9: an account whose registration was stored stays in the users table.
C9_AccountsNeverDeleted ==
    \A e \in Emails : reg[e].inserted => HasUser(e)

\* C10: register with an email that already has an account fails with
\* DuplicateEmail, and the users table never holds two rows with one email.
C10_EmailUnique ==
    /\ (last.op = "register" /\ last.next /\ last.existed)
            => (last.status # 201 /\ last.code = "DuplicateEmail")
    /\ \A r1 \in users, r2 \in users : r1.email = r2.email => r1 = r2

\* C11: two registrations with different emails that were both stored never
\* report the same account id.
C11_AccountIdUnique ==
    \A a \in Emails, b \in Emails :
        (a # b /\ reg[a].inserted /\ reg[b].inserted) => reg[a].id # reg[b].id

\* C12: when logout has answered with success, Redis holds no record under
\* the userId the request carried, and the guard denies the userId and
\* sessionId the request carried.
C12_LogoutDeletes ==
    (last.op = "logout" /\ last.status = 200)
        => /\ ~RedisHas(last.userId)
           /\ ~GuardDecision(last.userId, last.sessionId, TRUE).next

\* C13: the sessionId a successful login returns differs from the sessionId
\* every registration returned and from the sessionId of every session
\* another client still holds from an earlier register or login.
C13_FreshTokenPerLogin ==
    (last.op = "login" /\ last.status = 200)
        => /\ \A e \in Emails :
                reg[e] # NoReg => reg[e].sessionId # last.resSessionId
           /\ \A c \in Clients \ {last.client} :
                sess[c] # EmptySession => sess[c].sessionId # last.resSessionId

\* C14: when an account has logged in from two clients with every store
\* reachable, the guard lets the sessions of both clients through at the
\* same time.
C14_MultiDeviceLogin ==
    \A c1 \in Clients, c2 \in Clients :
        (/\ c1 # c2
         /\ last.op = "login" /\ last.status = 200 /\ last.down = {}
         /\ last.client = c2
         /\ owner[c1].via = "login" /\ owner[c2].via = "login"
         /\ owner[c1].email = owner[c2].email)
            => /\ GuardDecision(sess[c1].userId, sess[c1].sessionId, TRUE).next
               /\ GuardDecision(sess[c2].userId, sess[c2].sessionId, TRUE).next

\* C15: when the Redis record of a session has run out, the next request,
\* if it presents the userId and sessionId of that session to the guard,
\* is denied as SESSION_INVALID (redirected, by the HTML guard), and Redis
\* holds no record under that userId after it.
C15_Expiry ==
    [][\A x \in last.expired :
          (/\ last.op = "tick"
           /\ last'.op \in GuardOps
           /\ last'.userId = x[1] /\ last'.sessionId = x[2])
              => /\ ~last'.next
                 /\ last'.code \in {"SESSION_INVALID", "REDIRECT_LOGIN"}
                 /\ ~(x[1] \in DOMAIN redis' /\ redis'[x[1]].ttl > 0)]_vars

\* C16: the Redis record of a session set up by a login with rememberMe
\* outlives the default 24 hours, the record of a login without it does not.
C16_RememberMe ==
    (last.op = "login" /\ last.status = 200 /\ last.down = {})
        => /\ RedisHas(last.resUserId)
           /\ IF last.rememberMe
              THEN redis[last.resUserId].ttl > SessionTTL
              ELSE redis[last.resUserId].ttl = SessionTTL

\* C17: right after a refresh that succeeded with Redis reachable, the
\* Redis record of the session has the full TTL ahead of it.
C17_TouchExtends ==
    (last.op = "requireAuth" /\ last.next /\ last.down = {})
        => /\ RedisHas(last.userId)
           /\ redis[last.userId].ttl = SessionTTL

\* the row has a key and a field that aesIGE.decrypt throws on
DecryptionFails(row) ==
    /\ ~Falsy(row.encryption_key)
    /\ \E field \in {row.first_name, row.last_name, row.phone} :
            /\ ~Falsy(field)
            /\ ~AesIgeDecrypt(field, FromHex(row.encryption_key)).ok

\* C18: when the decryption of a field of the row fails, decryptUserData
\* reports an integrity error and does not return the stored value of the
\* field as the profile.
C18_NoSilentFallback ==
    (cx.pc = "read" /\ DecryptionFails(cx.row))
        => /\ cx.out.error = "IntegrityCheckFailed"
           /\ cx.out.firstName # cx.row.first_name

\* no surrogate without its partner
WellFormed(str) ==
    \A i \in 1..Len(str) :
        /\ IsHigh(str[i]) => (i < Len(str) /\ IsLow(str[i + 1]))
        /\ IsLow(str[i]) => (i > 1 /\ IsHigh(str[i - 1]))

\* C19 as stated: aesIGE.decrypt(aesIGE.encrypt(P, K), K) = P for every
\* string P and every 32-byte key K.
C19_RoundTrip ==
    cx.pc = "opened" => (cx.opened.ok /\ cx.opened.text = cx.data)

\* C19 amended: aesIGE.decrypt(aesIGE.encrypt(P, K), K) = P for every
\* 32-byte key K and every string P that is well-formed UTF-16.
C19_RoundTripWellFormed ==
    (cx.pc = "opened" /\ WellFormed(cx.data))
        => (cx.opened.ok /\ cx.opened.text = cx.data)

\* C19 witness: a surrogate pair went through encrypt and decrypt
C19_Witness ==
    /\ cx.pc = "opened"
    /\ cx.data = <<55357, 56832>>
    /\ cx.opened.ok

\* the keys generated so far
AuthKeysIssued == {AuthKey(n) : n \in 1..nextToken}

EncryptionKeysIssued == {ToHex(GenerateKey(n)) : n \in 1..nextToken}

\* C20: no value in the body of a response of register, login, logout,
\* checkAuth or the profile route is an auth key or an encryption key.
C20_KeyConfidentiality ==
    /\ \A f \in last.body.nums : f[2] \notin AuthKeysIssued
    /\ \A f \in last.body.chars : f[2] \notin EncryptionKeysIssued

\* C20 witness: a login answered with the profile document of the account
\* while Redis held the auth key of a session
C20_Witness ==
    /\ last.op = "login" /\ last.status = 200
    /\ \E f \in last.body.nums :
            f[1] = "data.user.profile.metadata.mtproto_session"
    /\ \E k \in DOMAIN redis : redis[k].auth_key \in AuthKeysIssued

\* C21: GET /api/users/profile, for a session the guard lets through,
\* answers with the user of the account: its email is the email the
\* account registered with and it has no password or password_hash.
C21_ProfileHidesPassword ==
    (last.op = "userProfile" /\ last.next /\ last.down = {})
        => /\ last.status = 200
           /\ <<"data.email", owner[last.client].email>> \in last.body.strs
           /\ \A f \in last.body.strs :
                f[1] \notin {"data.password", "data.password_hash"}

\* C22: in every state and for every password, a login with an email that
\* has no account is answered with the status and body of a login with an
\* email that has an account and a password that is not its password.
C22_NoEnumeration ==
    \A e1 \in Emails, e2 \in Emails, p \in LoginPasswords :
        (/\ ~HasUser(e1)
         /\ HasUser(e2)
         /\ ~BcryptCompare(p, FindUserInMySQL(e2).password_hash))
            => /\ LoginFailure(LoginError(e1, p, TRUE)).status
                    = LoginFailure(LoginError(e2, p, TRUE)).status
               /\ LoginFailure(LoginError(e1, p, TRUE)).body
                    = LoginFailure(LoginError(e2, p, TRUE)).body
               /\ (last.op = "login" /\ last.down = {} /\ last.status # 200)
                    => last.body = LoginFailure(LoginError(e2, p, TRUE)).body

\* C22 witness: a login with an email that has no account was turned down
\* while another email has an account
C22_Witness ==
    /\ last.op = "login" /\ last.status = 401 /\ ~last.existed
    /\ \E e \in Emails : HasUser(e)

\* C23: when register or login has answered with success and a sessionId,
\* Redis holds a record under the id of the account, and the session_id of
\* the record is that sessionId.
C23_IssuedSessionsPersisted ==
    (last.op \in {"register", "login"} /\ last.status \in {200, 201})
        => /\ RedisHas(last.resUserId)
           /\ redis[last.resUserId].session_id = last.resSessionId

\* C24: when register has answered with success and an id for an email,
\* the users table has a row with that id and that email.
C24_RegisteredIdIsAccount ==
    (last.op = "register" /\ last.status = 201)
        => \E r \in users : r.id = last.resUserId /\ r.email = last.email

\* C25: the user a successful login returns has the first name, the last
\* name and the phone number the account registered with.
C25_ProfileSurvives ==
    (last.op = "login" /\ last.status = 200)
        => /\ <<"data.user.firstName", RegisterData(last.email).firstName>>
                \in last.body.chars
           /\ <<"data.user.lastName", RegisterData(last.email).lastName>>
                \in last.body.chars
           /\ DecryptUserData(FindUserInMySQL(last.email)).phone
                = RegisterData(last.email).phone

\* the guard has turned the last request down after verifySession
\* returned false
RejectedAsInvalid ==
    last.op \in GuardOps /\ ~last.next /\ last.storeOps = 1

\* C26: when requireAuth or requireAuthHTML has rejected a request because
\* verifySession returned false, the HTTP session of the client is gone,
\* and a next request of the client to a guarded route is rejected as
\* AUTH_REQUIRED (redirected to /login) without a lookup in Redis.
C26_StaleSessionCleared ==
    [][RejectedAsInvalid
        => /\ sess[last.client] = EmptySession
           /\ (last'.op \in GuardOps /\ last'.client = last.client)
                => /\ ~last'.next
                   /\ last'.storeOps = 0
                   /\ last'.code \in {"AUTH_REQUIRED", "REDIRECT_LOGIN"}]_vars

\* C26 witness: the guard looked the session of a client up in Redis,
\* rejected the request, and the client is left without a session
C26_Witness ==
    /\ RejectedAsInvalid
    /\ last.hadRecord /\ ~last.hit
    /\ sess[last.client] = EmptySession

\* C27: a request to GET /api/auth/profile that requireAuth has let
\* through is answered with success.
C27_ProfileReachable ==
    (last.op = "profile" /\ last.next /\ last.down = {}) => last.status = 200

\* C28: when a client logs out with success, every other client that
\* holds a session of the same account is still let through by the guard
\* after the logout.
C28_PerSessionLogout ==
    [][(last'.op = "logout" /\ last'.status = 200 /\ last'.down = {})
        => \A c2 \in Clients \ {last'.client} :
              (/\ sess[c2] # EmptySession
               /\ owner[c2].email = owner[last'.client].email)
                 => (GuardDecision(sess[c2].userId, sess[c2].sessionId, TRUE).next)']_vars

\* C29: when GET /api/auth/check has answered authenticated: true to a
\* client, requireAuth lets a request of that client through in the same
\* state (Redis reachable).
C29_CheckAuthAgrees ==
    (last.op = "checkAuth" /\ last.status = 200)
        => GuardDecision(sess[last.client].userId,
                         sess[last.client].sessionId, TRUE).next

\* C30: when two registrations with different emails that ran at the same
\* time have both answered with success, the users table has a row for
\* each under the id it reported, the two ids differ, and each account can
\* log in with its email and password.
C30_ConcurrentRegistrations ==
    \A c1 \in Clients, c2 \in Clients :
        (c1 # c2 /\ At(c1, "done") /\ At(c2, "done"))
            => /\ race.rq[c1].userId # race.rq[c2].userId
               /\ \A c \in {c1, c2} :
                    /\ \E r \in users : /\ r.email = race.rq[c].email
                                        /\ r.id = race.rq[c].userId
                    /\ LoginError(race.rq[c].email, race.rq[c].password, TRUE) = ""

====
